---- MODULE Spec2Model ----
(***************************************************************************)
(* Model of the Thoughts / Plans / Changes (TPC) tracking service.         *)
(*                                                                         *)
(* The repository holds two servers, each with its own database:           *)
(*   src/tpc_server.py  FastMCP tools over integer-keyed tables            *)
(*   src/main.py        FastAPI endpoints and FastMCP tools over           *)
(*                      uuid-keyed tables                                  *)
(* A behaviour of the model is a run of one of the two servers: `server'   *)
(* is chosen in Init and never changes, and every action is a handler of   *)
(* that server.  One action is one request handled from session open to    *)
(* commit, rollback or close.                                              *)
(*                                                                         *)
(* Tables are sets of rows.  The thought_plan_association table is a bag   *)
(* of (thought_id, plan_id) pairs: main.py declares the pair as composite  *)
(* primary key, tpc_server.py declares no key at all.  An ORM relationship *)
(* collection (thought.plans, plan.thoughts) is read as the rows of the    *)
(* association table.                                                      *)
(***************************************************************************)
EXTENDS Integers, Sequences, FiniteSets, TLC

\* ---------------------------------------------------------------- bounds
\* Max<Rows> caps the ids ever issued for a table: a handler's creating branch
\* is disabled once the cap is reached, its failing branches are not.
MaxThoughts == 1
MaxPlans == 2
MaxChanges == 1
MaxList == 2
MaxTime == 1
MaxBatch == 2
\* the listing queries are also run on tables of up to MaxListed rows
MaxListed == 3
MaxPage == 3
MaxLimit == 2

\* the activity feed is also run on thoughts and plans tables of up to
\* MaxRecent rows
MaxRecent == 6
\* LIMIT of each query of api_recent_activity, and the length its result is
\* cut to
PerTypeLimit == 5
ActivityLimit == 10
\* LIMIT of each query of get_recent_updates
UpdatesLimit == 10
ThoughtIds == 1..MaxThoughts
PlanIds == 1..MaxPlans
ChangeIds == 1..MaxChanges
Times == 0..MaxTime
Texts == {"a"}
Servers == {"tpc_server", "main", "auth", "thought_repository", "plan_repository",
            "changelog_repository"}
Creds == {"none", "api_key"}

VARIABLES
    server,       \* which of the two programs this behaviour runs
    thoughts,     \* rows of table thoughts
    plans,        \* rows of table plans
    changes,      \* rows of table changes
    assoc,        \* rows of thought_plan_association, as a bag of pairs
    nextThought,  \* next fresh thought id (autoincrement / uuid4)
    nextPlan,
    nextChange,
    clock,        \* func.now() / datetime.utcnow()
    last,         \* the last request and the response it got
    users,        \* rows of table users
    api_keys,     \* rows of table api_keys
    log,          \* what the last request wrote to the log
    req,          \* the last request the authentication functions saw
    walk,         \* a client's walk through the pages of get_with_cursor
    plan_dependencies,   \* join rows <<plan id, id of the plan it depends on>>
    changelog_thoughts,  \* join rows <<change id, thought id>>
    tasks,        \* the handler coroutines in flight, each between two awaits
    poll          \* a client that polls GET /api/updates

vars == <<server, thoughts, plans, changes, assoc, nextThought, nextPlan,
          nextChange, clock, last, users, api_keys, log, req, walk,
          plan_dependencies, changelog_thoughts, tasks, poll>>

\* the tables and the log that the authentication functions read and write
authdb == <<users, api_keys, log, req>>

store == <<thoughts, plans, changes, assoc>>

\* the coroutines in flight and the polling client
inflight == <<tasks, poll>>

\* the join tables of the repositories
links == <<plan_dependencies, changelog_thoughts>>

\* ---------------------------------------------------------------- helpers
Seqs(S, n) == UNION {[1..k -> S] : k \in 0..n}

Range(s) == {s[i] : i \in 1..Len(s)}

HasDup(s) == \E i, j \in 1..Len(s) : i # j /\ s[i] = s[j]

Min(a, b) == IF a < b THEN a ELSE b

\* the orders in which a query can return the rows with the ids S
Orders(S) == {s \in [1..Cardinality(S) -> S] : Range(s) = S}

CreatedAt(rows, id) == (CHOOSE r \in rows : r.id = id).created_at

\* ORDER BY created_at DESC: rows with equal created_at come in any order
OrderByCreatedAtDesc(rows) ==
    {s \in Orders({r.id : r \in rows}) :
        \A i, j \in 1..Len(s) : i < j => CreatedAt(rows, s[i]) >= CreatedAt(rows, s[j])}

\* OFFSET offset LIMIT limit
OffsetLimit(s, offset, limit) == SubSeq(s, offset + 1, Min(offset + limit, Len(s)))

\* duplicate-free id lists
Lists(S, n) == {s \in Seqs(S, n) : ~HasDup(s)}

ThoughtExists(id) == \E t \in thoughts : t.id = id
PlanExists(id) == \E p \in plans : p.id = id
ChangeExists(id) == \E c \in changes : c.id = id

ThoughtIdsStored == {t.id : t \in thoughts}
PlanIdsStored == {p.id : p \in plans}
ChangeIdsStored == {c.id : c \in changes}

\* first element of the list that is not among the stored ids, 0 when none
RECURSIVE FirstMissing(_, _)
FirstMissing(ids, stored) ==
    IF ids = <<>> THEN 0
    ELSE IF Head(ids) \notin stored THEN Head(ids)
    ELSE FirstMissing(Tail(ids), stored)

NoAssoc == [pr \in ThoughtIds \X PlanIds |-> 0]

\* the bag after one row per listed pair was inserted
RECURSIVE AddPairs(_, _)
AddPairs(bag, prs) ==
    IF prs = <<>> THEN bag
    ELSE AddPairs([bag EXCEPT ![Head(prs)] = @ + 1], Tail(prs))

\* what the caller gets back: success or error, the HTTP status or the
\* status_code field (0 when the tool returns a plain string), and which
\* message
Response(op, ok, code, detail) ==
    [op |-> op, ok |-> ok, code |-> code, detail |-> detail]

Thought(id, content) == [id |-> id, content |-> content, created_at |-> clock]
\* main.py stores every plan with status "active"; tpc_server.py has no status
\* column
Plan(id, description) ==
    IF server = "main"
    THEN [id |-> id, description |-> description, created_at |-> clock,
          status |-> "active"]
    ELSE [id |-> id, description |-> description, created_at |-> clock]
Change(id, description, plan_id) ==
    [id |-> id, description |-> description, plan_id |-> plan_id, created_at |-> clock]

\* rows the users and api_keys tables may hold when the server starts; src/
\* holds no code that inserts them (main.py:646-666 are stubs)
UserRows == {[id |-> "u1", username |-> "A", role |-> "admin"],
             [id |-> "u2", username |-> "B", role |-> "user"]}

ApiKeyRows == {[key |-> "kA", user_id |-> "u1", revoked_at |-> FALSE],
               [key |-> "kB", user_id |-> "u2", revoked_at |-> FALSE]}

\* a request as the authentication functions see it: request.state.agent_id
\* (set by a middleware, "none" when unset or empty), method, path, the
\* X-API-Key header, the Authorization header and the access_token cookie
AgentIds == {"agent1"}
ApiKeyHeaders == {"none", "kA", "kB"}
AuthorizationHeaders == {"none", "Basic x", "Bearer tA", "Bearer tB"}
Cookies == {"none", "tB"}
Requests ==
    [agent_id : {"none"} \cup AgentIds,
     method : {"GET", "POST"},
     path : {"/thoughts", "/api/plans/bulk-delete"},
     x_api_key : ApiKeyHeaders,
     authorization : AuthorizationHeaders,
     cookie : Cookies]

NoRequest ==
    [agent_id |-> "none", method |-> "GET", path |-> "/thoughts",
     x_api_key |-> "none", authorization |-> "none", cookie |-> "none"]

\* no walk through the pages of get_with_cursor has begun
NoWalk ==
    [active |-> FALSE, done |-> FALSE, limit |-> 0, cursor |-> <<>>,
     issued |-> <<>>, base |-> {}]

\* ---------------------------------------------------------------- Init
\* two coroutines of the event loop, none of them started
TaskIds == 1..2
NoTasks == [i \in TaskIds |-> [pc |-> "idle", thought_id |-> 0, plan_id |-> 0,
                               description |-> "", created_at |-> 0,
                               ok |-> FALSE, code |-> 0]]

\* the client has not polled yet
NoPoll == [active |-> FALSE, since |-> 0, seen |-> {}, again |-> {}]

\* conftest.py: the rows the fixtures sample_plan and sample_thought (and the
\* thoughts a test creates first) put in the database before a changelog test
SamplePlan == [id |-> 1, description |-> "a", created_at |-> 0, status |-> "todo"]
SampleThoughts == {[id |-> i, content |-> "a", created_at |-> 0, plan_id |-> 0] : i \in 1..2}

Init ==
    /\ server \in Servers
    /\ thoughts \in (IF server = "changelog_repository" THEN SUBSET SampleThoughts ELSE {{}})
    /\ plans \in (IF server = "changelog_repository" THEN {{}, {SamplePlan}} ELSE {{}})
    /\ changes = {}
    /\ assoc = NoAssoc
    /\ nextThought = 1
    /\ nextPlan = 1
    /\ nextChange = 1
    /\ clock = 0
    /\ last = Response("init", TRUE, 0, "")
    /\ users \in (IF server = "auth" THEN SUBSET UserRows ELSE {{}})
    /\ api_keys = (IF server = "auth" THEN ApiKeyRows ELSE {})
    /\ log = <<>>
    /\ req = NoRequest
    /\ walk = NoWalk
    /\ plan_dependencies = {}
    /\ changelog_thoughts = {}
    /\ tasks = NoTasks
    /\ poll = NoPoll

Tick ==
    /\ server # "auth"
    /\ clock < MaxTime
    /\ clock' = clock + 1
    /\ UNCHANGED <<server, authdb, inflight, walk, links, thoughts, plans, changes, assoc, nextThought,
                   nextPlan, nextChange, last>>

\* ------------------------------------------------- tpc_server.py: tools

\* create_thought: the Thought is added to the session, every listed plan is
\* looked up in turn and the first missing one returns an error from inside
\* the session block, which closes the session without a commit.
tpc_create_thought(content, plan_ids) ==
    /\ server = "tpc_server"
    /\ LET missing == FirstMissing(plan_ids, PlanIdsStored)
           id == nextThought
       IN IF missing # 0
          THEN /\ last' = Response("create_thought", FALSE, 404, "plan_not_found")
               /\ UNCHANGED <<thoughts, assoc, nextThought>>
          ELSE /\ nextThought <= MaxThoughts
               /\ thoughts' = thoughts \cup {Thought(id, content)}
               /\ assoc' = AddPairs(assoc, [i \in 1..Len(plan_ids) |-> <<id, plan_ids[i]>>])
               /\ nextThought' = id + 1
               /\ last' = Response("create_thought", TRUE, 200, "created")
    /\ UNCHANGED <<server, authdb, inflight, walk, links, plans, changes, nextPlan, nextChange, clock>>

tpc_create_plan(description, thought_ids) ==
    /\ server = "tpc_server"
    /\ LET missing == FirstMissing(thought_ids, ThoughtIdsStored)
           id == nextPlan
       IN IF missing # 0
          THEN /\ last' = Response("create_plan", FALSE, 404, "thought_not_found")
               /\ UNCHANGED <<plans, assoc, nextPlan>>
          ELSE /\ nextPlan <= MaxPlans
               /\ plans' = plans \cup {Plan(id, description)}
               /\ assoc' = AddPairs(assoc, [i \in 1..Len(thought_ids) |-> <<thought_ids[i], id>>])
               /\ nextPlan' = id + 1
               /\ last' = Response("create_plan", TRUE, 200, "created")
    /\ UNCHANGED <<server, authdb, inflight, walk, links, thoughts, changes, nextThought, nextChange, clock>>

tpc_create_change(description, plan_id) ==
    /\ server = "tpc_server"
    /\ LET id == nextChange
       IN IF ~PlanExists(plan_id)
          THEN /\ last' = Response("create_change", FALSE, 404, "plan_not_found")
               /\ UNCHANGED <<changes, nextChange>>
          ELSE /\ nextChange <= MaxChanges
               /\ changes' = changes \cup {Change(id, description, plan_id)}
               /\ nextChange' = id + 1
               /\ last' = Response("create_change", TRUE, 200, "created")
    /\ UNCHANGED <<server, authdb, inflight, walk, links, thoughts, plans, assoc, nextThought, nextPlan, clock>>

\* mutant: the link is appended without looking whether it is there already
associate_without_link_check(thought_id, plan_id) ==
    /\ server = "tpc_server"
    /\ IF ~ThoughtExists(thought_id)
       THEN /\ last' = Response("associate", FALSE, 404, "thought_not_found")
            /\ UNCHANGED assoc
       ELSE IF ~PlanExists(plan_id)
       THEN /\ last' = Response("associate", FALSE, 404, "plan_not_found")
            /\ UNCHANGED assoc
       ELSE /\ assoc' = AddPairs(assoc, <<(<<thought_id, plan_id>>)>>)
            /\ last' = Response("associate", TRUE, 200, "associated")
    /\ UNCHANGED <<server, authdb, inflight, walk, links, thoughts, plans, changes, nextThought, nextPlan,
                   nextChange, clock>>

associate_thought_with_plan(thought_id, plan_id) ==
    /\ server = "tpc_server"
    /\ IF ~ThoughtExists(thought_id)
       THEN /\ last' = Response("associate", FALSE, 404, "thought_not_found")
            /\ UNCHANGED assoc
       ELSE IF ~PlanExists(plan_id)
       THEN /\ last' = Response("associate", FALSE, 404, "plan_not_found")
            /\ UNCHANGED assoc
       ELSE IF assoc[<<thought_id, plan_id>>] > 0
       THEN /\ last' = Response("associate", TRUE, 200, "already_associated")
            /\ UNCHANGED assoc
       ELSE /\ assoc' = AddPairs(assoc, <<(<<thought_id, plan_id>>)>>)
            /\ last' = Response("associate", TRUE, 200, "associated")
    /\ UNCHANGED <<server, authdb, inflight, walk, links, thoughts, plans, changes, nextThought, nextPlan,
                   nextChange, clock>>

\* mutant: every link of the thought is removed, not only the one to the plan
disassociate_clears_thought(thought_id, plan_id) ==
    /\ server = "tpc_server"
    /\ IF ~ThoughtExists(thought_id)
       THEN /\ last' = Response("disassociate", FALSE, 404, "thought_not_found")
            /\ UNCHANGED assoc
       ELSE IF ~PlanExists(plan_id)
       THEN /\ last' = Response("disassociate", FALSE, 404, "plan_not_found")
            /\ UNCHANGED assoc
       ELSE IF assoc[<<thought_id, plan_id>>] = 0
       THEN /\ last' = Response("disassociate", TRUE, 200, "not_associated")
            /\ UNCHANGED assoc
       ELSE /\ assoc' = [pr \in ThoughtIds \X PlanIds |->
                            IF pr[1] = thought_id THEN 0 ELSE assoc[pr]]
            /\ last' = Response("disassociate", TRUE, 200, "disassociated")
    /\ UNCHANGED <<server, authdb, inflight, walk, links, thoughts, plans, changes, nextThought, nextPlan,
                   nextChange, clock>>

\* mutant: the plan is looked up before the thought
disassociate_checks_plan_first(thought_id, plan_id) ==
    /\ server = "tpc_server"
    /\ IF ~PlanExists(plan_id)
       THEN /\ last' = Response("disassociate", FALSE, 404, "plan_not_found")
            /\ UNCHANGED assoc
       ELSE IF ~ThoughtExists(thought_id)
       THEN /\ last' = Response("disassociate", FALSE, 404, "thought_not_found")
            /\ UNCHANGED assoc
       ELSE IF assoc[<<thought_id, plan_id>>] = 0
       THEN /\ last' = Response("disassociate", TRUE, 200, "not_associated")
            /\ UNCHANGED assoc
       ELSE /\ assoc' = [assoc EXCEPT ![<<thought_id, plan_id>>] = 0]
            /\ last' = Response("disassociate", TRUE, 200, "disassociated")
    /\ UNCHANGED <<server, authdb, inflight, walk, links, thoughts, plans, changes, nextThought, nextPlan,
                   nextChange, clock>>

disassociate_thought_from_plan(thought_id, plan_id) ==
    /\ server = "tpc_server"
    /\ IF ~ThoughtExists(thought_id)
       THEN /\ last' = Response("disassociate", FALSE, 404, "thought_not_found")
            /\ UNCHANGED assoc
       ELSE IF ~PlanExists(plan_id)
       THEN /\ last' = Response("disassociate", FALSE, 404, "plan_not_found")
            /\ UNCHANGED assoc
       ELSE IF assoc[<<thought_id, plan_id>>] = 0
       THEN /\ last' = Response("disassociate", TRUE, 200, "not_associated")
            /\ UNCHANGED assoc
       ELSE /\ assoc' = [assoc EXCEPT ![<<thought_id, plan_id>>] = 0]
            /\ last' = Response("disassociate", TRUE, 200, "disassociated")
    /\ UNCHANGED <<server, authdb, inflight, walk, links, thoughts, plans, changes, nextThought, nextPlan,
                   nextChange, clock>>

\* ------------------------------------------------- main.py: auth gate

\* main.py:365-367: the line that registers hybrid_auth_middleware is
\* commented out, so the middleware is defined but never runs.
HybridAuthRegistered == FALSE

PublicPaths == {"/api/health", "/", "/thoughts", "/plans", "/changes",
                "/api-keys", "/login", "/refresh"}

\* the middleware as written: GET and public paths pass; otherwise API key,
\* then bearer token, then signature; 403 when all three fail
hybrid_auth_middleware(method, path, cred) ==
    IF method = "GET" \/ path \in PublicPaths THEN 200
    ELSE IF cred = "api_key" THEN 200
    ELSE IF cred = "bearer" THEN 200
    ELSE IF cred = "signature" THEN 200
    ELSE 403

\* what a request meets before its handler
AuthGate(method, path, cred) ==
    IF HybridAuthRegistered THEN hybrid_auth_middleware(method, path, cred) ELSE 200

\* the fallback get_current_user_hybrid of main.py: the default local user,
\* whatever the request carries
get_current_user_hybrid(cred) ==
    [username |-> "local_user", role |-> "user", id |-> "local"]

\* the fallback verify_hybrid_and_role of main.py: required_roles is not
\* read; the caller is whoever get_current_user_hybrid gives
verify_hybrid_and_role(required_roles, cred) == get_current_user_hybrid(cred)

\* a request: rejected by the gate, or handed to its handler
Request(method, path, cred, op, Handler) ==
    /\ server = "main"
    /\ IF AuthGate(method, path, cred) # 200
       THEN /\ last' = Response(op, FALSE, AuthGate(method, path, cred), "not_authenticated")
            /\ UNCHANGED <<server, authdb, inflight, walk, links, thoughts, plans, changes, assoc, nextThought,
                           nextPlan, nextChange, clock>>
       ELSE Handler

\* ------------------------------------------------- main.py: REST handlers

\* the session is created with autoflush=False: rows added to it are sent to
\* the database at commit.  Two pending association rows with the same
\* (thought_id, plan_id) violate the composite primary key, the commit
\* raises, the handler rolls back and answers 500.
PrimaryKeyConflict(prs) == HasDup(prs)

\* SQLite does not enforce FOREIGN KEY clauses unless the connection enables
\* them, and DATABASE_URL (main.py:221) does not.
ForeignKeysEnforced == FALSE

api_create_thought(cred, content, plan_ids) ==
    /\ LET id == nextThought
           found == SelectSeq(plan_ids, PlanExists)
           prs == [i \in 1..Len(found) |-> <<id, found[i]>>]
       IN IF PrimaryKeyConflict(prs)
          THEN /\ last' = Response("POST /api/thoughts", FALSE, 500, "error_creating_thought")
               /\ UNCHANGED <<thoughts, assoc, nextThought>>
          ELSE /\ nextThought <= MaxThoughts
               /\ thoughts' = thoughts \cup {Thought(id, content)}
               /\ assoc' = AddPairs(assoc, prs)
               /\ nextThought' = id + 1
               /\ last' = Response("POST /api/thoughts", TRUE, 200, "created")
    /\ UNCHANGED <<server, authdb, inflight, walk, links, plans, changes, nextPlan, nextChange, clock>>

api_create_plan(cred, description, thought_ids) ==
    /\ LET id == nextPlan
           found == SelectSeq(thought_ids, ThoughtExists)
           prs == [i \in 1..Len(found) |-> <<found[i], id>>]
       IN IF PrimaryKeyConflict(prs)
          THEN /\ last' = Response("POST /api/plans", FALSE, 500, "error_creating_plan")
               /\ UNCHANGED <<plans, assoc, nextPlan>>
          ELSE /\ nextPlan <= MaxPlans
               /\ plans' = plans \cup {Plan(id, description)}
               /\ assoc' = AddPairs(assoc, prs)
               /\ nextPlan' = id + 1
               /\ last' = Response("POST /api/plans", TRUE, 200, "created")
    /\ UNCHANGED <<server, authdb, inflight, walk, links, thoughts, changes, nextThought, nextChange, clock>>

\* the HTTPException(404) is raised inside the try block and caught by its
\* `except Exception', which rolls back and raises HTTPException(500)
api_create_change(cred, description, plan_id) ==
    /\ LET id == nextChange
       IN IF ~PlanExists(plan_id)
          THEN /\ last' = Response("POST /api/changes", FALSE, 500, "error_creating_change")
               /\ UNCHANGED <<changes, nextChange>>
          ELSE /\ nextChange <= MaxChanges
               /\ changes' = changes \cup {Change(id, description, plan_id)}
               /\ nextChange' = id + 1
               /\ last' = Response("POST /api/changes", TRUE, 200, "created")
    /\ UNCHANGED <<server, authdb, inflight, walk, links, thoughts, plans, assoc, nextThought, nextPlan, clock>>

\* create_change as the event loop runs it: the SELECT of the plan is awaited,
\* the Change is built when the coroutine resumes, and its INSERT reaches the
\* database at the awaited commit; other handlers run in between
create_change_select(i, cred, description, plan_id) ==
    /\ tasks[i].pc = "idle"
    /\ IF ~PlanExists(plan_id)
       THEN /\ tasks' = [tasks EXCEPT ![i].pc = "done", ![i].plan_id = plan_id,
                                       ![i].code = 500]
            /\ last' = Response("POST /api/changes", FALSE, 500, "error_creating_change")
       ELSE /\ tasks' = [tasks EXCEPT ![i].pc = "insert", ![i].plan_id = plan_id,
                                       ![i].description = description,
                                       ![i].created_at = clock]
            /\ UNCHANGED last
    /\ UNCHANGED <<server, authdb, poll, walk, links, store, nextThought, nextPlan,
                   nextChange, clock>>

\* await session.commit(): the foreign key is not enforced, the row is stored
\* whether or not its plan is still there
create_change_commit(i) ==
    /\ server = "main"
    /\ tasks[i].pc = "insert"
    /\ nextChange <= MaxChanges
    /\ IF ForeignKeysEnforced /\ ~PlanExists(tasks[i].plan_id)
       THEN /\ tasks' = [tasks EXCEPT ![i].pc = "done", ![i].code = 500]
            /\ last' = Response("POST /api/changes", FALSE, 500, "error_creating_change")
            /\ UNCHANGED <<changes, nextChange>>
       ELSE /\ changes' = changes \cup
                    {[id |-> nextChange, description |-> tasks[i].description,
                      plan_id |-> tasks[i].plan_id, created_at |-> tasks[i].created_at]}
            /\ nextChange' = nextChange + 1
            /\ tasks' = [tasks EXCEPT ![i].pc = "done", ![i].ok = TRUE, ![i].code = 200]
            /\ last' = Response("POST /api/changes", TRUE, 200, "created")
    /\ UNCHANGED <<server, authdb, poll, walk, links, thoughts, plans, assoc,
                   nextThought, nextPlan, clock>>

\* main.py defines the bulk-delete handlers and bulk_associate_thoughts twice
\* (1096-1191 and 1296-1391).  The two definitions of a handler make the same
\* statements on the tables; the later definition is the one the module name
\* is bound to and the one modelled here.
\*
\* deleted += rowcount of DELETE FROM plans WHERE id = plan_id, per listed id
\* mutant: every listed id that names a stored plan counts, also when it is
\* listed a second time
DeletedCountPerListed(ids, n) ==
    Len(SelectSeq(SubSeq(ids, 1, n), PlanExists))

\* the sum of the rowcounts of the first n DELETE FROM plans statements: 1 for
\* an id that names a stored plan and was not listed before, else 0
RECURSIVE DeletedCount(_, _)
DeletedCount(ids, n) ==
    IF n = 0 THEN 0
    ELSE DeletedCount(ids, n - 1)
         + (IF PlanExists(ids[n]) /\ ids[n] \notin Range(SubSeq(ids, 1, n - 1))
            THEN 1 ELSE 0)

bulk_delete_plans(cred, ids) ==
    /\ plans' = {p \in plans : p.id \notin Range(ids)}
    /\ changes' = {c \in changes : c.plan_id \notin Range(ids)}
    /\ assoc' = [pr \in ThoughtIds \X PlanIds |->
                    IF pr[2] \in Range(ids) THEN 0 ELSE assoc[pr]]
    /\ last' = Response("POST /api/plans/bulk-delete", TRUE, 200,
                        [deleted |-> DeletedCount(ids, Len(ids))])
    /\ UNCHANGED <<server, authdb, inflight, walk, links, thoughts, nextThought, nextPlan, nextChange, clock>>

bulk_delete_thoughts(cred, ids) ==
    /\ thoughts' = {t \in thoughts : t.id \notin Range(ids)}
    /\ assoc' = [pr \in ThoughtIds \X PlanIds |->
                    IF pr[1] \in Range(ids) THEN 0 ELSE assoc[pr]]
    /\ last' = Response("POST /api/thoughts/bulk-delete", TRUE, 200, "deleted")
    /\ UNCHANGED <<server, authdb, inflight, walk, links, plans, changes, nextThought, nextPlan, nextChange, clock>>

bulk_delete_changes(cred, ids) ==
    /\ changes' = {c \in changes : c.id \notin Range(ids)}
    /\ last' = Response("POST /api/changes/bulk-delete", TRUE, 200, "deleted")
    /\ UNCHANGED <<server, authdb, inflight, walk, links, thoughts, plans, assoc, nextThought, nextPlan, nextChange,
                   clock>>

\* every (source, target) pair in request order
Pairs(source_ids, target_ids) ==
    [k \in 1..(Len(source_ids) * Len(target_ids)) |->
        <<source_ids[((k - 1) \div Len(target_ids)) + 1],
          target_ids[((k - 1) % Len(target_ids)) + 1]>>]

IsUnlinked(pr) == assoc[pr] = 0

\* a pair is added to the session when the table holds no row for it; neither
\* id is looked up.  The existence check reads the table, not the session, so
\* a pair listed twice is added twice and the commit fails on the primary key.
bulk_associate_thoughts(cred, source_ids, target_ids) ==
    /\ LET new == SelectSeq(Pairs(source_ids, target_ids), IsUnlinked)
           dangling == \E i \in 1..Len(new) :
                          ~ThoughtExists(new[i][1]) \/ ~PlanExists(new[i][2])
       IN IF PrimaryKeyConflict(new) \/ (ForeignKeysEnforced /\ dangling)
          THEN /\ last' = Response("POST /api/thoughts/bulk-associate", FALSE, 500, "error_associating_thoughts")
               /\ UNCHANGED assoc
          ELSE /\ assoc' = AddPairs(assoc, new)
               /\ last' = Response("POST /api/thoughts/bulk-associate", TRUE, 200,
                                   [created |-> Len(new)])
    /\ UNCHANGED <<server, authdb, inflight, walk, links, thoughts, plans, changes, nextThought, nextPlan, nextChange,
                   clock>>

\* every listed change that exists gets plan_id = target_ids[0]; the target is
\* not looked up
bulk_associate_changes(cred, source_ids, target_ids) ==
    /\ LET hit == SelectSeq(source_ids, ChangeExists)
           dangling == target_ids # <<>> /\ hit # <<>> /\ ~PlanExists(target_ids[1])
       IN IF target_ids = <<>>
          THEN /\ last' = Response("POST /api/changes/bulk-associate", TRUE, 200, "updated")
               /\ UNCHANGED changes
          ELSE IF ForeignKeysEnforced /\ dangling
          THEN /\ last' = Response("POST /api/changes/bulk-associate", FALSE, 500, "error_associating_changes")
               /\ UNCHANGED changes
          ELSE /\ changes' = {IF c.id \in Range(source_ids)
                              THEN [c EXCEPT !.plan_id = target_ids[1]] ELSE c
                              : c \in changes}
               /\ last' = Response("POST /api/changes/bulk-associate", TRUE, 200, "updated")
    /\ UNCHANGED <<server, authdb, inflight, walk, links, thoughts, plans, assoc, nextThought, nextPlan, nextChange,
                   clock>>

\* GET /api/thoughts: a read
get_all_thoughts(cred, page, limit) ==
    /\ \E s \in OrderByCreatedAtDesc(thoughts) :
          last' = Response("GET /api/thoughts", TRUE, 200,
                           [data |-> OffsetLimit(s, (page - 1) * limit, limit),
                            total |-> Cardinality(thoughts),
                            page |-> page, limit |-> limit])
    /\ UNCHANGED <<server, authdb, inflight, walk, links, thoughts, plans, changes, assoc, nextThought,
                   nextPlan, nextChange, clock>>

\* the write endpoints, for a request that carries credential `cred'
RestWrite(cred) ==
    \/ \E c \in Texts, ids \in Seqs(PlanIds, MaxList) :
         Request("POST", "/api/thoughts", cred, "POST /api/thoughts",
                 api_create_thought(cred, c, ids))
    \/ \E d \in Texts, ids \in Seqs(ThoughtIds, MaxList) :
         Request("POST", "/api/plans", cred, "POST /api/plans",
                 api_create_plan(cred, d, ids))
    \/ \E d \in Texts, p \in PlanIds :
         Request("POST", "/api/changes", cred, "POST /api/changes",
                 api_create_change(cred, d, p))
    \/ \E ids \in Seqs(PlanIds, MaxList) :
         Request("POST", "/api/plans/bulk-delete", cred, "POST /api/plans/bulk-delete",
                 bulk_delete_plans(cred, ids))
    \/ \E ids \in Seqs(ThoughtIds, MaxList) :
         Request("POST", "/api/thoughts/bulk-delete", cred,
                 "POST /api/thoughts/bulk-delete", bulk_delete_thoughts(cred, ids))
    \/ \E ids \in Seqs(ChangeIds, MaxList) :
         Request("POST", "/api/changes/bulk-delete", cred,
                 "POST /api/changes/bulk-delete", bulk_delete_changes(cred, ids))
    \/ \E src \in Seqs(ThoughtIds, MaxList), tgt \in Seqs(PlanIds, MaxList) :
         Request("POST", "/api/thoughts/bulk-associate", cred,
                 "POST /api/thoughts/bulk-associate",
                 bulk_associate_thoughts(cred, src, tgt))
    \/ \E src \in Seqs(ChangeIds, MaxList), tgt \in Seqs(PlanIds, MaxList) :
         Request("POST", "/api/changes/bulk-associate", cred,
                 "POST /api/changes/bulk-associate",
                 bulk_associate_changes(cred, src, tgt))

RestRead(cred) ==
    \E page \in 1..MaxPage, limit \in 1..MaxLimit :
        Request("GET", "/api/thoughts", cred, "GET /api/thoughts",
                get_all_thoughts(cred, page, limit))

\* ORDER BY created_at DESC LIMIT n: the n newest rows, newest first; rows
\* with equal created_at come in any order
RECURSIVE NewestRows(_, _)
NewestRows(rows, n) ==
    IF n = 0 \/ rows = {} THEN {<<>>}
    ELSE UNION {{<<r>> \o s : s \in NewestRows(rows \ {r}, n - 1)} :
                   r \in {x \in rows : \A y \in rows : x.created_at >= y.created_at}}

ActivityItem(type, row) == [type |-> type, id |-> row.id, timestamp |-> row.created_at]

ActivityItems(type, rows) == [i \in 1..Len(rows) |-> ActivityItem(type, rows[i])]

\* list.sort(key=timestamp, reverse=True): stable, items with equal timestamps
\* keep the order they had
SortByTimestampReverse(result) ==
    LET before(i) == Cardinality({j \in 1..Len(result) :
                        \/ result[j].timestamp > result[i].timestamp
                        \/ result[j].timestamp = result[i].timestamp /\ j < i})
    IN [k \in 1..Len(result) |->
           result[CHOOSE i \in 1..Len(result) : before(i) = k - 1]]

\* GET /api/recent-activity: the newest PerTypeLimit thoughts, plans and
\* changes are fetched by three queries, put into one list in that order,
\* sorted by timestamp and cut to ActivityLimit items
api_recent_activity ==
    /\ \E ts \in NewestRows(thoughts, PerTypeLimit), ps \in NewestRows(plans, PerTypeLimit),
          cs \in NewestRows(changes, PerTypeLimit) :
          LET result == ActivityItems("thought", ts) \o ActivityItems("plan", ps)
                            \o ActivityItems("change", cs)
              sorted == SortByTimestampReverse(result)
          IN last' = Response("GET /api/recent-activity", TRUE, 200,
                              [data |-> SubSeq(sorted, 1, Min(ActivityLimit, Len(sorted)))])
    /\ UNCHANGED <<server, authdb, inflight, walk, links, store, nextThought, nextPlan, nextChange, clock>>

ActivityNext ==
    \E cred \in Creds :
        Request("GET", "/api/recent-activity", cred, "GET /api/recent-activity",
                api_recent_activity)

\* GET /api/updates: from each table the newest UpdatesLimit rows, of those
\* created after `since' when the request passes it
UpdatesQuery(rows, has_since, since) ==
    NewestRows({r \in rows : has_since => r.created_at > since}, UpdatesLimit)

get_recent_updates(has_since, since) ==
    {[thoughts |-> ActivityItems("thought", ts), plans |-> ActivityItems("plan", ps),
      changes |-> ActivityItems("change", cs)] :
        ts \in UpdatesQuery(thoughts, has_since, since),
        ps \in UpdatesQuery(plans, has_since, since),
        cs \in UpdatesQuery(changes, has_since, since)}

Max(a, b) == IF a > b THEN a ELSE b

\* one poll of a client that passes as `since' the newest created_at it has
\* received so far, and no `since' before it has received a record
PollUpdates(cred) ==
    /\ \E result_data \in get_recent_updates(poll.active, poll.since) :
          LET got == Range(result_data.thoughts) \cup Range(result_data.plans)
                         \cup Range(result_data.changes)
              newest == CHOOSE m \in {x.timestamp : x \in got} \cup {poll.since} :
                            \A x \in got : x.timestamp <= m
          IN /\ last' = Response("GET /api/updates", TRUE, 200, result_data)
             /\ poll' = [active |-> poll.active \/ got # {},
                         since |-> IF poll.active THEN Max(poll.since, newest) ELSE newest,
                         seen |-> poll.seen \cup got,
                         again |-> poll.again \cup (poll.seen \cap got)]
    /\ UNCHANGED <<server, authdb, tasks, walk, links, store, nextThought, nextPlan, nextChange, clock>>

UpdatesNext ==
    \E cred \in Creds :
        Request("GET", "/api/updates", cred, "GET /api/updates", PollUpdates(cred))

\* POST /api/changes running concurrently with other requests
ChangeTasksNext ==
    \/ \E i \in TaskIds, cred \in Creds, d \in Texts, p \in PlanIds :
         Request("POST", "/api/changes", cred, "POST /api/changes",
                 create_change_select(i, cred, d, p))
    \/ \E i \in TaskIds : create_change_commit(i)

RestNext ==
    \/ \E cred \in Creds : RestWrite(cred)
    \/ \E cred \in Creds : RestRead(cred)

\* ------------------------------------------------- main.py: MCP tools

\* mutant: a missing plan is skipped and the thought is committed with the
\* links to the plans that exist
add_thought_skips_missing(content, plan_ids) ==
    /\ server = "main"
    /\ nextThought <= MaxThoughts
    /\ LET id == nextThought
           found == SelectSeq(plan_ids, PlanExists)
           prs == [i \in 1..Len(found) |-> <<id, found[i]>>]
       IN IF PrimaryKeyConflict(prs)
          THEN /\ last' = Response("add_thought", FALSE, 0, "error_adding_thought")
               /\ UNCHANGED <<thoughts, assoc, nextThought>>
          ELSE /\ thoughts' = thoughts \cup {Thought(id, content)}
               /\ assoc' = AddPairs(assoc, prs)
               /\ nextThought' = id + 1
               /\ last' = Response("add_thought", TRUE, 0, "added")
    /\ UNCHANGED <<server, authdb, inflight, walk, links, plans, changes, nextPlan, nextChange, clock>>

\* add_thought: the loop returns at the first listed plan that is missing,
\* from inside the session block and before the commit.  When every listed
\* plan exists the commit sends the thought and one association row per
\* listed id.
add_thought(content, plan_ids) ==
    /\ server = "main"
    /\ LET id == nextThought
           missing == FirstMissing(plan_ids, PlanIdsStored)
           prs == [i \in 1..Len(plan_ids) |-> <<id, plan_ids[i]>>]
       IN IF missing # 0
          THEN /\ last' = Response("add_thought", FALSE, 0, "plan_not_found")
               /\ UNCHANGED <<thoughts, assoc, nextThought>>
          ELSE IF PrimaryKeyConflict(prs)
          THEN /\ last' = Response("add_thought", FALSE, 0, "error_adding_thought")
               /\ UNCHANGED <<thoughts, assoc, nextThought>>
          ELSE /\ nextThought <= MaxThoughts
               /\ thoughts' = thoughts \cup {Thought(id, content)}
               /\ assoc' = AddPairs(assoc, prs)
               /\ nextThought' = id + 1
               /\ last' = Response("add_thought", TRUE, 0, "added")
    /\ UNCHANGED <<server, authdb, inflight, walk, links, plans, changes, nextPlan, nextChange, clock>>

mcp_create_plan(description, thought_ids) ==
    /\ server = "main"
    /\ LET id == nextPlan
           missing == FirstMissing(thought_ids, ThoughtIdsStored)
           prs == [i \in 1..Len(thought_ids) |-> <<thought_ids[i], id>>]
       IN IF missing # 0
          THEN /\ last' = Response("create_plan", FALSE, 0, "thought_not_found")
               /\ UNCHANGED <<plans, assoc, nextPlan>>
          ELSE IF PrimaryKeyConflict(prs)
          THEN /\ last' = Response("create_plan", FALSE, 0, "error_creating_plan")
               /\ UNCHANGED <<plans, assoc, nextPlan>>
          ELSE /\ nextPlan <= MaxPlans
               /\ plans' = plans \cup {Plan(id, description)}
               /\ assoc' = AddPairs(assoc, prs)
               /\ nextPlan' = id + 1
               /\ last' = Response("create_plan", TRUE, 0, "created")
    /\ UNCHANGED <<server, authdb, inflight, walk, links, thoughts, changes, nextThought, nextChange, clock>>

\* mutant: the change is stored without looking the plan up
log_change_unchecked(description, plan_id) ==
    /\ server = "main"
    /\ nextChange <= MaxChanges
    /\ changes' = changes \cup {Change(nextChange, description, plan_id)}
    /\ nextChange' = nextChange + 1
    /\ last' = Response("log_change", TRUE, 0, "logged")
    /\ UNCHANGED <<server, authdb, inflight, walk, links, thoughts, plans, assoc, nextThought, nextPlan, clock>>

log_change(description, plan_id) ==
    /\ server = "main"
    /\ LET id == nextChange
       IN IF ~PlanExists(plan_id)
          THEN /\ last' = Response("log_change", FALSE, 0, "plan_not_found")
               /\ UNCHANGED <<changes, nextChange>>
          ELSE /\ nextChange <= MaxChanges
               /\ changes' = changes \cup {Change(id, description, plan_id)}
               /\ nextChange' = id + 1
               /\ last' = Response("log_change", TRUE, 0, "logged")
    /\ UNCHANGED <<server, authdb, inflight, walk, links, thoughts, plans, assoc, nextThought, nextPlan, clock>>

\* an item of log_changes_bulk: a dict that names a plan and may lack its
\* "description" key
ChangeItems == [plan_id : PlanIds, has_description : BOOLEAN]

ItemPlanExists(item) == PlanExists(item.plan_id)

\* the entries of the list a bulk tool returns
Entry(kind, id) == [kind |-> kind, id |-> id]

\* how many of the first n items name a stored plan
RECURSIVE KeptBefore(_, _)
KeptBefore(items, n) ==
    IF n = 0 THEN 0
    ELSE KeptBefore(items, n - 1) + (IF ItemPlanExists(items[n]) THEN 1 ELSE 0)

\* results of log_changes_bulk when no item raises: one entry per item
ChangeResults(items) ==
    [i \in 1..Len(items) |->
        IF ItemPlanExists(items[i])
        THEN Entry("Logged change", nextChange + KeptBefore(items, i) - 1)
        ELSE Entry("Error: Plan not found", items[i].plan_id)]

\* mutant: a missing plan aborts the batch like any other error
log_changes_bulk_aborts_on_missing(items) ==
    /\ server = "main"
    /\ LET kept == SelectSeq(items, ItemPlanExists)
           raised == Len(kept) # Len(items) \/ \E i \in 1..Len(kept) : ~kept[i].has_description
           rows == {Change(nextChange + i - 1, "a", kept[i].plan_id) : i \in 1..Len(kept)}
       IN /\ nextChange + Len(kept) - 1 <= MaxChanges
          /\ IF raised
             THEN /\ last' = Response("log_changes_bulk", FALSE, 0,
                                      [results |-> <<Entry("Error in bulk operation", 0)>>])
                  /\ UNCHANGED <<changes, nextChange>>
             ELSE /\ changes' = changes \cup rows
                  /\ nextChange' = nextChange + Len(kept)
                  /\ last' = Response("log_changes_bulk", TRUE, 0,
                                      [results |-> ChangeResults(items)])
    /\ UNCHANGED <<server, authdb, inflight, walk, links, thoughts, plans, assoc, nextThought, nextPlan, clock>>

\* log_changes_bulk: an item whose plan is missing gets an error entry and is
\* skipped; an item whose plan exists becomes a Change, and building it from
\* a dict without "description" raises KeyError, which rolls the batch back
log_changes_bulk(items) ==
    /\ server = "main"
    /\ LET kept == SelectSeq(items, ItemPlanExists)
           raised == \E i \in 1..Len(kept) : ~kept[i].has_description
           rows == {Change(nextChange + i - 1, "a", kept[i].plan_id) : i \in 1..Len(kept)}
       IN /\ nextChange + Len(kept) - 1 <= MaxChanges
          /\ IF raised
             THEN /\ last' = Response("log_changes_bulk", FALSE, 0,
                                      [results |-> <<Entry("Error in bulk operation", 0)>>])
                  /\ UNCHANGED <<changes, nextChange>>
             ELSE /\ changes' = changes \cup rows
                  /\ nextChange' = nextChange + Len(kept)
                  /\ last' = Response("log_changes_bulk", TRUE, 0,
                                      [results |-> ChangeResults(items)])
    /\ UNCHANGED <<server, authdb, inflight, walk, links, thoughts, plans, assoc, nextThought, nextPlan, clock>>

\* an item of add_thoughts_bulk: a dict that may lack its "content" key and
\* may carry plan_ids
ThoughtItems == [has_content : BOOLEAN, plan_ids : Seqs(PlanIds, MaxList)]

\* an item of create_plans_bulk: a dict that may lack its "title" key and may
\* carry thought_ids
PlanItems == [has_title : BOOLEAN, thought_ids : Seqs(ThoughtIds, MaxList)]

\* the association rows the session holds after the first n items: one per
\* listed id that names a stored row
RECURSIVE ThoughtItemPairs(_, _)
ThoughtItemPairs(items, n) ==
    IF n = 0 THEN <<>>
    ELSE LET found == SelectSeq(items[n].plan_ids, PlanExists)
         IN ThoughtItemPairs(items, n - 1)
            \o [k \in 1..Len(found) |-> <<nextThought + n - 1, found[k]>>]

RECURSIVE PlanItemPairs(_, _)
PlanItemPairs(items, n) ==
    IF n = 0 THEN <<>>
    ELSE LET found == SelectSeq(items[n].thought_ids, ThoughtExists)
         IN PlanItemPairs(items, n - 1)
            \o [k \in 1..Len(found) |-> <<found[k], nextPlan + n - 1>>]

BulkError(op, items) ==
    Response(op, FALSE, 0, [results |-> <<Entry("Error in bulk operation", 0)>>,
                            sent |-> Len(items)])

\* mutant: every item is committed on its own, the items before the one that
\* raises stay stored
add_thoughts_bulk_commits_each(items) ==
    /\ server = "main"
    /\ LET raises == {i \in 1..Len(items) : ~items[i].has_content}
           n == IF raises = {} THEN Len(items)
                ELSE (CHOOSE i \in raises : \A j \in raises : i <= j) - 1
           prs == ThoughtItemPairs(items, n)
       IN /\ nextThought + n - 1 <= MaxThoughts
          /\ ~PrimaryKeyConflict(prs)
          /\ thoughts' = thoughts \cup {Thought(nextThought + i - 1, "a") : i \in 1..n}
          /\ assoc' = AddPairs(assoc, prs)
          /\ nextThought' = nextThought + n
          /\ last' = IF raises # {} THEN BulkError("add_thoughts_bulk", items)
                     ELSE Response("add_thoughts_bulk", TRUE, 0,
                             [results |-> [i \in 1..Len(items) |->
                                             Entry("Added thought", nextThought + i - 1)],
                              sent |-> Len(items)])
    /\ UNCHANGED <<server, authdb, inflight, walk, links, plans, changes, nextPlan,
                   nextChange, clock>>

\* add_thoughts_bulk: every item becomes a Thought and one association per
\* listed plan that exists, all added to one session and committed at the end;
\* a dict without "content" raises KeyError and two pending association rows
\* with the same key make the commit raise: the session is rolled back
add_thoughts_bulk(items) ==
    /\ server = "main"
    /\ LET prs == ThoughtItemPairs(items, Len(items))
       IN IF (\E i \in 1..Len(items) : ~items[i].has_content) \/ PrimaryKeyConflict(prs)
          THEN /\ last' = BulkError("add_thoughts_bulk", items)
               /\ UNCHANGED <<thoughts, assoc, nextThought>>
          ELSE /\ nextThought + Len(items) - 1 <= MaxThoughts
               /\ thoughts' = thoughts \cup
                      {Thought(nextThought + i - 1, "a") : i \in 1..Len(items)}
               /\ assoc' = AddPairs(assoc, prs)
               /\ nextThought' = nextThought + Len(items)
               /\ last' = Response("add_thoughts_bulk", TRUE, 0,
                              [results |-> [i \in 1..Len(items) |->
                                              Entry("Added thought", nextThought + i - 1)],
                               sent |-> Len(items)])
    /\ UNCHANGED <<server, authdb, inflight, walk, links, plans, changes, nextPlan,
                   nextChange, clock>>

\* create_plans_bulk: the same for plans and their thought_ids
create_plans_bulk(items) ==
    /\ server = "main"
    /\ LET prs == PlanItemPairs(items, Len(items))
       IN IF (\E i \in 1..Len(items) : ~items[i].has_title) \/ PrimaryKeyConflict(prs)
          THEN /\ last' = BulkError("create_plans_bulk", items)
               /\ UNCHANGED <<plans, assoc, nextPlan>>
          ELSE /\ nextPlan + Len(items) - 1 <= MaxPlans
               /\ plans' = plans \cup
                      {Plan(nextPlan + i - 1, "a") : i \in 1..Len(items)}
               /\ assoc' = AddPairs(assoc, prs)
               /\ nextPlan' = nextPlan + Len(items)
               /\ last' = Response("create_plans_bulk", TRUE, 0,
                              [results |-> [i \in 1..Len(items) |->
                                              Entry("Created plan", nextPlan + i - 1)],
                               sent |-> Len(items)])
    /\ UNCHANGED <<server, authdb, inflight, walk, links, thoughts, changes, nextThought,
                   nextChange, clock>>

BulkNext ==
    \/ \E items \in Seqs(ThoughtItems, MaxBatch) : add_thoughts_bulk(items)
    \/ \E items \in Seqs(PlanItems, MaxBatch) : create_plans_bulk(items)

McpNext ==
    \/ \E c \in Texts, ids \in Seqs(PlanIds, MaxList) : add_thought(c, ids)
    \/ \E d \in Texts, ids \in Seqs(ThoughtIds, MaxList) : mcp_create_plan(d, ids)
    \/ \E d \in Texts, p \in PlanIds : log_change(d, p)
    \/ \E items \in Seqs(ChangeItems, MaxBatch) : log_changes_bulk(items)

\* thoughts://list: SELECT without ORDER BY, the rows come in any order; the
\* model keeps the ids of the returned rows
list_thoughts ==
    /\ server = "tpc_server"
    /\ \E s \in Orders(ThoughtIdsStored) :
          last' = Response("thoughts://list", TRUE, 200, [data |-> s])
    /\ UNCHANGED <<server, authdb, inflight, walk, links, store, nextThought, nextPlan, nextChange, clock>>

\* associate_thought_with_plan as the event loop runs it: the coroutine gives
\* up control at every await, so another call can run between its SELECTs and
\* its commit. The three reads are one step here: rows of thoughts and plans
\* are never removed by tpc_server.py, so only the time of the last read, the
\* one of thought.plans, matters.
associate_select(i, thought_id, plan_id) ==
    /\ server = "tpc_server"
    /\ tasks[i].pc = "idle"
    /\ LET call == [tasks[i] EXCEPT !.thought_id = thought_id, !.plan_id = plan_id]
       IN IF ~ThoughtExists(thought_id) \/ ~PlanExists(plan_id)
          THEN /\ tasks' = [tasks EXCEPT ![i] = [call EXCEPT !.pc = "done", !.code = 404]]
               /\ last' = Response("associate", FALSE, 404,
                                   IF ~ThoughtExists(thought_id)
                                   THEN "thought_not_found" ELSE "plan_not_found")
          ELSE IF assoc[<<thought_id, plan_id>>] > 0
          THEN /\ tasks' = [tasks EXCEPT ![i] = [call EXCEPT !.pc = "done", !.ok = TRUE,
                                                              !.code = 200]]
               /\ last' = Response("associate", TRUE, 200, "already_associated")
          ELSE /\ tasks' = [tasks EXCEPT ![i] = [call EXCEPT !.pc = "append"]]
               /\ UNCHANGED last
    /\ UNCHANGED <<server, authdb, poll, walk, links, store, nextThought, nextPlan,
                   nextChange, clock>>

\* plan.thoughts.append(thought); await db.commit(): the table has no key, the
\* INSERT of a row that is already there succeeds
associate_commit(i) ==
    /\ server = "tpc_server"
    /\ tasks[i].pc = "append"
    /\ assoc' = AddPairs(assoc, <<(<<tasks[i].thought_id, tasks[i].plan_id>>)>>)
    /\ tasks' = [tasks EXCEPT ![i].pc = "done", ![i].ok = TRUE, ![i].code = 200]
    /\ last' = Response("associate", TRUE, 200, "associated")
    /\ UNCHANGED <<server, authdb, poll, walk, links, thoughts, plans, changes,
                   nextThought, nextPlan, nextChange, clock>>

AssociateTasksNext ==
    \/ \E i \in TaskIds, t \in ThoughtIds, p \in PlanIds : associate_select(i, t, p)
    \/ \E i \in TaskIds : associate_commit(i)

\* the value Python's None
None == [none |-> TRUE]

\* the dict a resource returns when the row is not there
NotFoundDict(message) == [error |-> message, status_code |-> 404]

ThoughtDict(t) ==
    [id |-> t.id, content |-> t.content, created_at |-> t.created_at,
     plan_ids |-> {p \in PlanIds : assoc[<<t.id, p>>] > 0}]

PlanDict(p) ==
    [id |-> p.id, description |-> p.description, created_at |-> p.created_at,
     thought_ids |-> {t \in ThoughtIds : assoc[<<t, p.id>>] > 0},
     change_ids |-> {c.id : c \in {x \in changes : x.plan_id = p.id}}]

\* thoughts://get/{thought_id}
get_thought(thought_id) ==
    /\ server = "tpc_server"
    /\ IF ~ThoughtExists(thought_id)
       THEN last' = Response("thoughts://get", FALSE, 404, NotFoundDict("Thought not found"))
       ELSE last' = Response("thoughts://get", TRUE, 200,
                             ThoughtDict(CHOOSE t \in thoughts : t.id = thought_id))
    /\ UNCHANGED <<server, authdb, inflight, walk, links, store, nextThought, nextPlan, nextChange,
                   clock>>

\* plans://get/{plan_id}
get_plan(plan_id) ==
    /\ server = "tpc_server"
    /\ IF ~PlanExists(plan_id)
       THEN last' = Response("plans://get", FALSE, 404, NotFoundDict("Plan not found"))
       ELSE last' = Response("plans://get", TRUE, 200,
                             PlanDict(CHOOSE p \in plans : p.id = plan_id))
    /\ UNCHANGED <<server, authdb, inflight, walk, links, store, nextThought, nextPlan, nextChange,
                   clock>>

\* changes://get/{change_id}
get_change(change_id) ==
    /\ server = "tpc_server"
    /\ IF ~ChangeExists(change_id)
       THEN last' = Response("changes://get", FALSE, 404, NotFoundDict("Change not found"))
       ELSE last' = Response("changes://get", TRUE, 200,
                             CHOOSE c \in changes : c.id = change_id)
    /\ UNCHANGED <<server, authdb, inflight, walk, links, store, nextThought, nextPlan, nextChange,
                   clock>>

TpcNext ==
    \/ list_thoughts
    \/ \E id \in ThoughtIds : get_thought(id)
    \/ \E id \in PlanIds : get_plan(id)
    \/ \E id \in ChangeIds : get_change(id)
    \/ \E c \in Texts, ids \in Lists(PlanIds, MaxList) : tpc_create_thought(c, ids)
    \/ \E d \in Texts, ids \in Lists(ThoughtIds, MaxList) : tpc_create_plan(d, ids)
    \/ \E d \in Texts, p \in PlanIds : tpc_create_change(d, p)
    \/ \E t \in ThoughtIds, p \in PlanIds : associate_thought_with_plan(t, p)
    \/ \E t \in ThoughtIds, p \in PlanIds : disassociate_thought_from_plan(t, p)

\* ------------------------------------------------- auth.py

\* the outcome of an authentication function: the user it returns, or the
\* HTTPException it raises, and the lines it logged about failed methods
Authenticated(user, lines) ==
    [ok |-> TRUE, user |-> user, code |-> 200, detail |-> "", log |-> lines]
Rejected(code, detail, lines) ==
    [ok |-> FALSE, user |-> [id |-> "", username |-> "", role |-> ""],
     code |-> code, detail |-> detail, log |-> lines]

\* jwt.decode(token, SECRET_KEY): the "sub" claim of a token that is signed
\* with the key and not expired, "none" when decoding raises JWTError
jwt_decode(token) ==
    CASE token = "tA" -> "A"
      [] token = "tB" -> "B"
      [] OTHER -> "none"

\* token[7:] of an Authorization header that starts with "Bearer "
IsBearer(header) == header \in {"Bearer tA", "Bearer tB"}
BearerToken(header) ==
    CASE header = "Bearer tA" -> "tA"
      [] header = "Bearer tB" -> "tB"
      [] OTHER -> "bad"

get_user(username) == {u \in users : u.username = username}

get_current_user(token) ==
    IF jwt_decode(token) = "none" \/ get_user(jwt_decode(token)) = {}
    THEN Rejected(401, "Could not validate credentials", <<>>)
    ELSE Authenticated(CHOOSE u \in get_user(jwt_decode(token)) : TRUE, <<>>)

\* pwd_context.verify(api_key_plain, key_hash) for a row whose hash was made
\* from `key'
KeyMatches(api_key_plain, row) == api_key_plain = row.key

\* mutant: revoked keys are not filtered out
validate_api_key_any_row(request) ==
    LET hits == {k \in api_keys :
                    /\ KeyMatches(request.x_api_key, k)
                    /\ \E u \in users : u.id = k.user_id}
    IN IF request.x_api_key = "none"
       THEN Rejected(401, "Missing API key", <<>>)
       ELSE IF hits = {}
       THEN Rejected(401, "Invalid API key", <<>>)
       ELSE Authenticated(CHOOSE u \in users : \E k \in hits : u.id = k.user_id, <<>>)

\* the rows with revoked_at IS NULL are tried in turn; the first whose hash
\* verifies and whose user exists authenticates the request
validate_api_key(request) ==
    LET hits == {k \in api_keys :
                    /\ ~k.revoked_at
                    /\ KeyMatches(request.x_api_key, k)
                    /\ \E u \in users : u.id = k.user_id}
    IN IF request.x_api_key = "none"
       THEN Rejected(401, "Missing API key", <<>>)
       ELSE IF hits = {}
       THEN Rejected(401, "Invalid API key", <<>>)
       ELSE Authenticated(CHOOSE u \in users : \E k \in hits : u.id = k.user_id, <<>>)

AgentUser(agent_id) == [id |-> agent_id, username |-> agent_id, role |-> "agent"]
GuestUser == [id |-> "guest", username |-> "guest", role |-> "guest"]
public_paths == {"/", "/thoughts", "/plans", "/changes", "/api/health", "/api-keys"}

\* the bearer attempt of get_current_user_hybrid: the Authorization header
JwtAttempt(request) ==
    IF IsBearer(request.authorization)
    THEN get_current_user(BearerToken(request.authorization))
    ELSE Rejected(401, "Invalid token format", <<>>)

\* the cookie fallback that follows a failed bearer attempt
CookieAttempt(request, lines) ==
    IF request.cookie # "none" /\ get_current_user(request.cookie).ok
    THEN Authenticated(get_current_user(request.cookie).user, lines)
    ELSE Rejected(401, "Authentication failed",
                  IF request.cookie = "none" THEN lines
                  ELSE Append(lines, get_current_user(request.cookie).detail))

\* mutant: the bearer token is tried before the API key
hybrid_bearer_first(request) ==
    IF request.agent_id # "none"
    THEN Authenticated(AgentUser(request.agent_id), <<>>)
    ELSE IF request.path \in public_paths /\ request.method = "GET"
    THEN Authenticated(GuestUser, <<>>)
    ELSE IF JwtAttempt(request).ok
    THEN Authenticated(JwtAttempt(request).user, <<>>)
    ELSE IF validate_api_key(request).ok
    THEN Authenticated(validate_api_key(request).user, <<JwtAttempt(request).detail>>)
    ELSE CookieAttempt(request, <<JwtAttempt(request).detail,
                                  validate_api_key(request).detail>>)

\* mutant: the exception of the last failed method is raised to the client
hybrid_surfaces_reason(request) ==
    IF request.agent_id # "none"
    THEN Authenticated(AgentUser(request.agent_id), <<>>)
    ELSE IF request.path \in public_paths /\ request.method = "GET"
    THEN Authenticated(GuestUser, <<>>)
    ELSE IF validate_api_key(request).ok
    THEN Authenticated(validate_api_key(request).user, <<>>)
    ELSE IF JwtAttempt(request).ok
    THEN Authenticated(JwtAttempt(request).user, <<validate_api_key(request).detail>>)
    ELSE IF CookieAttempt(request, <<>>).ok
    THEN CookieAttempt(request, <<validate_api_key(request).detail,
                                  JwtAttempt(request).detail>>)
    ELSE Rejected(401, JwtAttempt(request).detail,
                  <<validate_api_key(request).detail, JwtAttempt(request).detail>>)

\* get_current_user_hybrid of auth.py: the agent id a middleware left on the
\* request, then the guest user for a public GET, then the API key, then the
\* bearer token, then the cookie; the failure of a method is logged and the
\* next one tried; when none is left 401 "Authentication failed" is raised
auth_get_current_user_hybrid(request) ==
    IF request.agent_id # "none"
    THEN Authenticated(AgentUser(request.agent_id), <<>>)
    ELSE IF request.path \in public_paths /\ request.method = "GET"
    THEN Authenticated(GuestUser, <<>>)
    ELSE IF validate_api_key(request).ok
    THEN Authenticated(validate_api_key(request).user, <<>>)
    ELSE IF JwtAttempt(request).ok
    THEN Authenticated(JwtAttempt(request).user, <<validate_api_key(request).detail>>)
    ELSE CookieAttempt(request, <<validate_api_key(request).detail,
                                  JwtAttempt(request).detail>>)

\* verify_hybrid_and_role of auth.py; required_roles.split('|') is the set
\* `required_roles'
auth_verify_hybrid_and_role(required_roles, request) ==
    LET r == auth_get_current_user_hybrid(request)
    IN IF r.ok /\ r.user.role \notin required_roles
       THEN Rejected(403, "Insufficient permissions", r.log)
       ELSE r

RoleSpecs == {{"admin"}, {"agent", "admin"}}

\* what the client of an authentication function receives
AuthResponse(op, r) ==
    Response(op, r.ok, r.code, IF r.ok THEN r.user.username ELSE r.detail)

\* a request that is authenticated by validate_api_key alone
validate_api_key_request(request) ==
    /\ server = "auth"
    /\ last' = AuthResponse("validate_api_key", validate_api_key(request))
    /\ log' = validate_api_key(request).log
    /\ req' = request
    /\ UNCHANGED <<server, inflight, walk, links, store, nextThought, nextPlan, nextChange, clock,
                   users, api_keys>>

\* a request to an endpoint that depends on get_current_user_hybrid
hybrid_request(request) ==
    /\ server = "auth"
    /\ last' = AuthResponse("get_current_user_hybrid",
                            auth_get_current_user_hybrid(request))
    /\ log' = auth_get_current_user_hybrid(request).log
    /\ req' = request
    /\ UNCHANGED <<server, inflight, walk, links, store, nextThought, nextPlan, nextChange, clock,
                   users, api_keys>>

\* a request to an endpoint that depends on verify_hybrid_and_role(roles)
role_request(required_roles, request) ==
    /\ server = "auth"
    /\ last' = AuthResponse("verify_hybrid_and_role",
                            auth_verify_hybrid_and_role(required_roles, request))
    /\ log' = auth_verify_hybrid_and_role(required_roles, request).log
    /\ req' = request
    /\ UNCHANGED <<server, inflight, walk, links, store, nextThought, nextPlan, nextChange, clock,
                   users, api_keys>>

\* DELETE /api-keys/{key_id}: the key's revoked_at is set
revoke_api_key(key) ==
    /\ server = "auth"
    /\ \E k \in api_keys : k.key = key /\ ~k.revoked_at
    /\ api_keys' = {IF k.key = key THEN [k EXCEPT !.revoked_at = TRUE] ELSE k
                    : k \in api_keys}
    /\ last' = Response("revoke_api_key", TRUE, 200, key)
    /\ log' = <<>>
    /\ UNCHANGED <<server, inflight, walk, links, store, nextThought, nextPlan, nextChange, clock, users,
                   req>>

AuthNext ==
    \/ \E request \in Requests : validate_api_key_request(request)
    \/ \E request \in Requests : hybrid_request(request)
    \/ \E roles \in RoleSpecs, request \in Requests : role_request(roles, request)
    \/ \E key \in {k.key : k \in ApiKeyRows} : revoke_api_key(key)

\* ------------------------------------------------- repositories
\* ThoughtRepository, PlanRepository and ChangelogRepository are imported by
\* src/tests from a revision of tpc_server.py that src/ does not hold; they
\* are modelled from the specification and from what the tests call.

\* generate_id(prefix): an opaque id no stored row has; its order among the
\* ids says nothing about the order of creation
RepoIds == 1..MaxListed

\* the listing order (timestamp desc, id)
Precedes(rows, a, b) ==
    \/ CreatedAt(rows, a) > CreatedAt(rows, b)
    \/ CreatedAt(rows, a) = CreatedAt(rows, b) /\ a < b

NewestFirst(rows) ==
    CHOOSE s \in Orders({r.id : r \in rows}) :
        \A i, j \in 1..Len(s) : i < j => Precedes(rows, s[i], s[j])

ThoughtModel(id, content, plan_id) ==
    [id |-> id, content |-> content, created_at |-> clock, plan_id |-> plan_id]

\* ThoughtRepository.create(content, plan_id): plan_id 0 is None
ThoughtRepository_create(content, plan_id) ==
    /\ server = "thought_repository"
    /\ IF plan_id # 0 /\ ~PlanExists(plan_id)
       THEN /\ last' = Response("ThoughtRepository.create", FALSE, 0, "ValueError")
            /\ UNCHANGED thoughts
       ELSE \E id \in RepoIds \ ThoughtIdsStored :
               /\ thoughts' = thoughts \cup {ThoughtModel(id, content, plan_id)}
               /\ last' = Response("ThoughtRepository.create", TRUE, 0, id)
    /\ UNCHANGED <<server, authdb, inflight, walk, links, plans, changes, assoc, nextThought, nextPlan,
                   nextChange, clock>>

\* get_all(limit, offset)
get_all(rows, limit, offset) == OffsetLimit(NewestFirst(rows), offset, limit)

ThoughtRepository_get_all(limit, offset) ==
    /\ server = "thought_repository"
    /\ last' = Response("ThoughtRepository.get_all", TRUE, 0,
                        [data |-> get_all(thoughts, limit, offset)])
    /\ UNCHANGED <<server, authdb, inflight, walk, links, store, nextThought, nextPlan, nextChange,
                   clock>>

\* the cursor token of a row: its (timestamp, id); <<>> is no cursor
EncodeCursor(row) == <<row.created_at, row.id>>
DecodeCursor(token) == [created_at |-> token[1], id |-> token[2]]

\* the rows that come after the cursor's row in the listing order
AfterCursor(rows, cursor) ==
    IF cursor = <<>> THEN rows
    ELSE {r \in rows :
            \/ r.created_at < DecodeCursor(cursor).created_at
            \/ /\ r.created_at = DecodeCursor(cursor).created_at
               /\ r.id > DecodeCursor(cursor).id}

\* mutant: the cursor is the number of rows issued so far, used as an offset
get_with_offset_cursor(rows, limit, cursor) ==
    LET offset == IF cursor = <<>> THEN 0 ELSE cursor[1]
        items == OffsetLimit(NewestFirst(rows), offset, limit)
    IN [items |-> items,
        next_cursor |-> IF Cardinality(rows) > offset + limit
                        THEN <<offset + limit>> ELSE <<>>]

\* get_with_cursor(limit, cursor) -> {items, next_cursor}
get_with_cursor(rows, limit, cursor) ==
    LET rest == NewestFirst(AfterCursor(rows, cursor))
        items == SubSeq(rest, 1, Min(limit, Len(rest)))
    IN [items |-> items,
        next_cursor |-> IF Len(rest) > limit
                        THEN EncodeCursor(CHOOSE r \in rows : r.id = items[Len(items)])
                        ELSE <<>>]

\* a client fetches the first page
cursor_first_page(limit) ==
    /\ server = "thought_repository"
    /\ LET page == get_with_cursor(thoughts, limit, <<>>)
       IN /\ walk' = [active |-> TRUE, done |-> page.next_cursor = <<>>,
                      limit |-> limit, cursor |-> page.next_cursor,
                      issued |-> page.items, base |-> thoughts]
          /\ last' = Response("ThoughtRepository.get_with_cursor", TRUE, 0, page)
    /\ UNCHANGED <<server, inflight, users, api_keys, log, req, links, store, nextThought, nextPlan,
                   nextChange, clock>>

\* the client follows next_cursor
cursor_next_page ==
    /\ server = "thought_repository"
    /\ walk.active /\ ~walk.done
    /\ LET page == get_with_cursor(thoughts, walk.limit, walk.cursor)
       IN /\ walk' = [walk EXCEPT !.done = page.next_cursor = <<>>,
                                  !.cursor = page.next_cursor,
                                  !.issued = walk.issued \o page.items]
          /\ last' = Response("ThoughtRepository.get_with_cursor", TRUE, 0, page)
    /\ UNCHANGED <<server, inflight, users, api_keys, log, req, links, store, nextThought, nextPlan,
                   nextChange, clock>>

ThoughtRepositoryNext ==
    \/ \E c \in Texts, p \in {0} \cup PlanIds : ThoughtRepository_create(c, p)
    \/ \E limit \in 1..MaxLimit, offset \in 0..MaxListed :
          ThoughtRepository_get_all(limit, offset)
    \/ \E limit \in 1..MaxLimit : cursor_first_page(limit)
    \/ cursor_next_page

\* PlanStatus: the values a plan's status may take
PlanStatus == {"todo", "in-progress", "blocked", "done"}

\* create called without a status
NoStatus == "unset"

\* the status strings a caller passes
StatusInputs == {NoStatus, "done", "pending"}

PlanModel(id, description, status) ==
    [id |-> id, description |-> description, created_at |-> clock, status |-> status]

ValueError(kind, names) == [error |-> "ValueError", kind |-> kind, names |-> names]

DependenciesOf(id) == {d[2] : d \in {x \in plan_dependencies : x[1] = id}}

MissingPlans(dependencies) == Range(dependencies) \ PlanIdsStored

\* mutant: the dependency ids are not looked up
PlanErrorsStatusOnly(status, dependencies) ==
    {ValueError("Invalid status", {status}) :
        x \in {y \in {status} : y \notin PlanStatus \cup {NoStatus}}}

\* the errors create raises for its arguments; which check runs first is not
\* laid down, so with two errors either one is raised
PlanErrors(status, dependencies) ==
    {ValueError("Invalid status", {status}) :
        x \in {y \in {status} : y \notin PlanStatus \cup {NoStatus}}}
    \cup {ValueError("Dependency plan IDs do not exist", MissingPlans(dependencies)) :
            x \in {y \in {1} : MissingPlans(dependencies) # {}}}

\* mutant: only the first dependency gets a join row
StoredDependenciesFirstOnly(id, dependencies) ==
    IF dependencies = <<>> THEN {} ELSE {<<id, dependencies[1]>>}

\* the join rows create writes for a new plan
StoredDependencies(id, dependencies) == {<<id, d>> : d \in Range(dependencies)}

\* the status create stores: todo when the caller gave none
StoredStatus(status) == IF status = NoStatus THEN "todo" ELSE status

\* PlanRepository.create(description, status, dependencies): all or nothing
PlanRepository_create(description, status, dependencies) ==
    /\ server = "plan_repository"
    /\ IF PlanErrors(status, dependencies) # {}
       THEN /\ \E e \in PlanErrors(status, dependencies) :
                  last' = Response("PlanRepository.create", FALSE, 0, e)
            /\ UNCHANGED <<plans, plan_dependencies>>
       ELSE \E id \in RepoIds \ PlanIdsStored :
               /\ plans' = plans \cup {PlanModel(id, description, StoredStatus(status))}
               /\ plan_dependencies' =
                      plan_dependencies \cup StoredDependencies(id, dependencies)
               /\ last' = Response("PlanRepository.create", TRUE, 0,
                                   [id |-> id, status |-> StoredStatus(status),
                                    dependencies |-> dependencies])
    /\ UNCHANGED <<server, authdb, inflight, walk, changelog_thoughts, thoughts, changes, assoc,
                   nextThought, nextPlan, nextChange, clock>>

\* what a fetched plan carries: its dependencies come in any order
FetchedPlans(id) ==
    {[id |-> id, status |-> (CHOOSE p \in plans : p.id = id).status,
      dependencies |-> deps] : deps \in Orders(DependenciesOf(id))}

\* PlanRepository.get_by_id(plan_id): None when no such plan
PlanRepository_get_by_id(id) ==
    /\ server = "plan_repository"
    /\ IF ~PlanExists(id)
       THEN last' = Response("PlanRepository.get_by_id", TRUE, 0, [id |-> 0])
       ELSE \E model \in FetchedPlans(id) :
               last' = Response("PlanRepository.get_by_id", TRUE, 0, model)
    /\ UNCHANGED <<server, authdb, inflight, walk, links, store, nextThought, nextPlan, nextChange,
                   clock>>

\* PlanRepository.get_all(limit, offset)
PlanRepository_get_all(limit, offset) ==
    /\ server = "plan_repository"
    /\ LET ids == get_all(plans, limit, offset)
       IN \E data \in [1..Len(ids) -> UNION {FetchedPlans(id) : id \in PlanIdsStored}] :
             /\ \A i \in 1..Len(ids) : data[i] \in FetchedPlans(ids[i])
             /\ last' = Response("PlanRepository.get_all", TRUE, 0, [data |-> data])
    /\ UNCHANGED <<server, authdb, inflight, walk, links, store, nextThought, nextPlan, nextChange,
                   clock>>

PlanRepositoryNext ==
    \/ \E d \in Texts, st \in StatusInputs, deps \in Lists(RepoIds, MaxList) :
          PlanRepository_create(d, st, deps)
    \/ \E id \in RepoIds : PlanRepository_get_by_id(id)
    \/ \E limit \in 1..MaxLimit, offset \in 0..1 :
          PlanRepository_get_all(limit, offset)

ChangeLogModel(id, plan_id, description) ==
    [id |-> id, description |-> description, plan_id |-> plan_id, created_at |-> clock]

ThoughtsOf(id) == {l[2] : l \in {x \in changelog_thoughts : x[1] = id}}

MissingThoughts(thought_ids) == Range(thought_ids) \ ThoughtIdsStored

\* the errors create raises for its arguments; with two errors either one
ChangeErrors(plan_id, thought_ids) ==
    {ValueError("Plan does not exist", {plan_id}) :
        x \in {y \in {plan_id} : ~PlanExists(y)}}
    \cup {ValueError("Thought IDs do not exist", MissingThoughts(thought_ids)) :
            x \in {y \in {1} : MissingThoughts(thought_ids) # {}}}

\* ChangelogRepository.create(plan_id, description, thought_ids): all or nothing
ChangelogRepository_create(plan_id, description, thought_ids) ==
    /\ server = "changelog_repository"
    /\ IF ChangeErrors(plan_id, thought_ids) # {}
       THEN /\ \E e \in ChangeErrors(plan_id, thought_ids) :
                  last' = Response("ChangelogRepository.create", FALSE, 0, e)
            /\ UNCHANGED <<changes, changelog_thoughts>>
       ELSE \E id \in RepoIds \ ChangeIdsStored :
               /\ changes' = changes \cup {ChangeLogModel(id, plan_id, description)}
               /\ changelog_thoughts' =
                      changelog_thoughts \cup {<<id, t>> : t \in Range(thought_ids)}
               /\ last' = Response("ChangelogRepository.create", TRUE, 0,
                                   [id |-> id, plan_id |-> plan_id,
                                    thought_ids |-> thought_ids])
    /\ UNCHANGED <<server, authdb, inflight, walk, plan_dependencies, thoughts, plans, assoc,
                   nextThought, nextPlan, nextChange, clock>>

\* ChangelogRepository.get_by_id(change_id): None when no such change
ChangelogRepository_get_by_id(id) ==
    /\ server = "changelog_repository"
    /\ IF ~ChangeExists(id)
       THEN last' = Response("ChangelogRepository.get_by_id", TRUE, 0, [id |-> 0])
       ELSE \E tids \in Orders(ThoughtsOf(id)) :
               last' = Response("ChangelogRepository.get_by_id", TRUE, 0,
                                [id |-> id, thought_ids |-> tids])
    /\ UNCHANGED <<server, authdb, inflight, walk, links, store, nextThought, nextPlan, nextChange,
                   clock>>

ChangelogRepositoryNext ==
    \/ \E p \in RepoIds, d \in Texts, tids \in Lists(RepoIds, MaxList) :
          ChangelogRepository_create(p, d, tids)
    \/ \E id \in RepoIds : ChangelogRepository_get_by_id(id)

\* ================================================================ claims

\* some listed id names no stored row
SomeMissing(ids, stored) == FirstMissing(ids, stored) # 0

\* C1: in main.py every stored Change has a plan_id that is the id of a
\* stored Plan (stated as the claim; bulk_associate_changes breaks it).
C1_ChangePlanExists ==
    server = "main" => \A c \in changes : PlanExists(c.plan_id)

\* C2: create_thought (tpc_server.py) and add_thought (main.py), called with a
\* plan id list of which at least one id names no stored Plan, return an error
\* and add no Thought row and no association row.
C2_MissingPlanNoThought ==
    [][\A c \in Texts, ids \in Seqs(PlanIds, MaxList) :
          ((tpc_create_thought(c, ids) \/ add_thought(c, ids))
             /\ SomeMissing(ids, PlanIdsStored))
          => (~last'.ok /\ thoughts' = thoughts /\ assoc' = assoc
              /\ Cardinality(thoughts') = Cardinality(thoughts))]_vars

\* C2 witness: add_thought has answered "plan not found" while a plan exists,
\* so that a stored plan could be listed before the missing one.
C2_Witness ==
    /\ last.op = "add_thought"
    /\ last.detail = "plan_not_found"
    /\ plans # {}

\* C3: POST /api/thoughts with plan_ids and POST /api/plans with thought_ids
\* fail as a whole and write nothing when a referenced id does not exist
\* (stated as the claim; the handlers skip the missing id and commit).
C3_RestCreateAllOrNothing ==
    [][/\ \A cred \in Creds, c \in Texts, ids \in Seqs(PlanIds, MaxList) :
            (server = "main" /\ api_create_thought(cred, c, ids)
               /\ SomeMissing(ids, PlanIdsStored))
            => (~last'.ok /\ thoughts' = thoughts /\ assoc' = assoc)
       /\ \A cred \in Creds, d \in Texts, ids \in Seqs(ThoughtIds, MaxList) :
            (server = "main" /\ api_create_plan(cred, d, ids)
               /\ SomeMissing(ids, ThoughtIdsStored))
            => (~last'.ok /\ plans' = plans /\ assoc' = assoc)]_vars

\* C4: creating a Change whose plan_id names no stored Plan fails on every
\* surface (create_change of tpc_server.py, log_change and POST /api/changes of
\* main.py) and leaves the set of changes as it was.
C4_MissingPlanNoChange ==
    [][\A d \in Texts, p \in PlanIds :
          (/\ ~PlanExists(p)
           /\ \/ tpc_create_change(d, p)
              \/ log_change(d, p)
              \/ \E cred \in Creds : server = "main" /\ api_create_change(cred, d, p))
          => (~last'.ok /\ changes' = changes)]_vars

\* C4 witness: log_change has answered "plan not found" while a change of
\* another plan is stored.
C4_Witness ==
    /\ last.op = "log_change"
    /\ last.detail = "plan_not_found"
    /\ changes # {}

C7_NotFoundNamesMissing ==
    [][\A t \in ThoughtIds, p \in PlanIds :
          ((associate_thought_with_plan(t, p) \/ disassociate_thought_from_plan(t, p))
             /\ (~ThoughtExists(t) \/ ~PlanExists(p)))
          => (/\ ~last'.ok
              /\ last'.code = 404
              /\ last'.detail = IF ~ThoughtExists(t) THEN "thought_not_found"
                                ELSE "plan_not_found"
              /\ assoc' = assoc)]_vars

\* C7 witness: thought and plan were both missing and the thought was named.
C7_Witness ==
    /\ last.op \in {"associate", "disassociate"}
    /\ last.detail = "thought_not_found"
    /\ thoughts = {}
    /\ Cardinality(plans) < MaxPlans

C9_RecordsImmutable ==
    [][/\ \A t \in thoughts : \A u \in thoughts' : u.id = t.id => u = t
       /\ \A q \in plans : \A u \in plans' : u.id = q.id => u = q
       /\ \A c \in changes : \A u \in changes' : u.id = c.id => u = c]_vars

\* C10: a write request without a valid credential is rejected with 401 or
\* 403 and changes no record, and a GET is served without credentials (stated
\* as the claim; the auth middleware is not registered).
C10_WritesPassAuthGate ==
    [][/\ RestWrite("none") => (last'.code \in {401, 403} /\ UNCHANGED store)
       /\ RestRead("none") => last'.ok]_vars

\* the request is not a GET of a public path
NonPublic(r) == ~(r.path \in public_paths /\ r.method = "GET")

\* the request carries an API key of user u that is stored and not revoked
HasValidKeyOf(r, u) ==
    \E k \in api_keys : k.key = r.x_api_key /\ ~k.revoked_at /\ k.user_id = u.id

\* the request carries a bearer token whose subject is user u
HasValidBearerOf(r, u) ==
    IsBearer(r.authorization) /\ jwt_decode(BearerToken(r.authorization)) = u.username

\* C11: get_current_user_hybrid returns the principal of the first method
\* that succeeds, in the order pre-set agent id, API key, bearer token: a
\* request with an agent id is the agent's whatever else it carries, and a
\* non-public request with a valid API key of user A is A's also when it
\* carries a valid bearer token of user B.
C11_FirstSuccessWins ==
    (server = "auth" /\ last.op = "get_current_user_hybrid") =>
        /\ req.agent_id # "none" =>
               last = Response("get_current_user_hybrid", TRUE, 200, req.agent_id)
        /\ \A u \in users :
               (req.agent_id = "none" /\ NonPublic(req) /\ HasValidKeyOf(req, u))
               => (last.ok /\ last.detail = u.username)
        /\ \A u \in users :
               (/\ req.agent_id = "none"
                /\ NonPublic(req)
                /\ ~\E v \in users : HasValidKeyOf(req, v)
                /\ HasValidBearerOf(req, u))
               => (last.ok /\ last.detail = u.username)

\* a POST with the API key of A and the bearer token of B was attributed to A
C11_Witness ==
    /\ last.op = "get_current_user_hybrid"
    /\ req.agent_id = "none" /\ req.method = "POST"
    /\ req.x_api_key = "kA" /\ req.authorization = "Bearer tB"
    /\ users = UserRows
    /\ \E k \in api_keys : k.key = "kA" /\ ~k.revoked_at
    /\ last.ok /\ last.detail = "A"

C13_RevokedKeyRejected ==
    /\ [](  (server = "auth" /\ last.op = "validate_api_key") =>
              /\ last.ok =>
                   \E k \in api_keys, u \in users :
                       /\ k.key = req.x_api_key /\ ~k.revoked_at
                       /\ u.id = k.user_id /\ last.detail = u.username
              /\ req.x_api_key = "none" => (~last.ok /\ last.code = 401)
              /\ (\E k \in api_keys : k.key = req.x_api_key /\ k.revoked_at)
                     => (~last.ok /\ last.code = 401))
    /\ [][\A k \in api_keys : k.revoked_at => k \in api_keys']_vars

\* the key of an existing user was revoked and then presented
C13_Witness ==
    /\ last.op = "validate_api_key" /\ ~last.ok /\ last.code = 401
    /\ req.x_api_key = "kA"
    /\ \E k \in api_keys : k.key = "kA" /\ k.revoked_at
    /\ \E u \in users : u.id = "u1"

IsNewestFirstListing(data) ==
    /\ Range(data) = ThoughtIdsStored
    /\ Len(data) = Cardinality(thoughts)
    /\ \A i, j \in 1..Len(data) :
           i < j => CreatedAt(thoughts, data[i]) >= CreatedAt(thoughts, data[j])

\* C15: a listing of thoughts is newest first, and with a limit and an offset
\* it is the records at positions offset..offset+limit-1 of that order
\* (thoughts://list takes no limit; GET /api/thoughts takes page and limit,
\* offset = (page - 1) * limit).
C15_NewestFirstPaged ==
    /\ last.op = "thoughts://list" => IsNewestFirstListing(last.detail.data)
    /\ last.op = "GET /api/thoughts" =>
           \E s \in Orders(ThoughtIdsStored) :
               /\ IsNewestFirstListing(s)
               /\ last.detail.data =
                      OffsetLimit(s, (last.detail.page - 1) * last.detail.limit,
                                  last.detail.limit)

\* C16: ties in created_at are broken by id, so the pages of GET /api/thoughts
\* fetched with one limit over an unchanged table share no thought, and
\* total is the number of stored thoughts.
C16_PagesPartition ==
    /\ [](last.op = "GET /api/thoughts" => last.detail.total = Cardinality(thoughts))
    /\ [][(/\ last.op = "GET /api/thoughts"
           /\ last'.op = "GET /api/thoughts"
           /\ thoughts' = thoughts
           /\ last'.detail.limit = last.detail.limit
           /\ last'.detail.page # last.detail.page)
          => Range(last.detail.data) \cap Range(last'.detail.data) = {}]_vars

\* the ids of a listing that belong to rows
Restrict(s, rows) ==
    LET Kept(id) == id \in {r.id : r \in rows}
    IN SelectSeq(s, Kept)

NoDuplicates(s) == \A i, j \in 1..Len(s) : s[i] = s[j] => i = j

IsPrefix(s, t) == Len(s) <= Len(t) /\ s = SubSeq(t, 1, Len(s))

\* the rows created after the first page was fetched
Inserted == thoughts \ walk.base

DependenciesAfter(id) == {d[2] : d \in {x \in plan_dependencies' : x[1] = id}}

\* C18: a plan created with the dependency list D of existing plans has exactly
\* the dependencies Range(D), none when D is empty; they never change, and
\* get_by_id and get_all return them, in whatever order, without repeating one.
C18_DependenciesAsSet ==
    /\ [][\A d \in Texts, st \in StatusInputs, deps \in Lists(RepoIds, MaxList) :
             (PlanRepository_create(d, st, deps) /\ last'.ok)
                 => DependenciesAfter(last'.detail.id) = Range(deps)]_vars
    /\ [][\A id \in PlanIdsStored : DependenciesAfter(id) = DependenciesOf(id)]_vars
    /\ [](last.op = "PlanRepository.get_by_id" /\ last.detail.id # 0
            => /\ Range(last.detail.dependencies) = DependenciesOf(last.detail.id)
               /\ NoDuplicates(last.detail.dependencies))
    /\ [](last.op = "PlanRepository.get_all"
            => \A i \in 1..Len(last.detail.data) :
                  /\ Range(last.detail.data[i].dependencies)
                         = DependenciesOf(last.detail.data[i].id)
                  /\ NoDuplicates(last.detail.data[i].dependencies))

\* a plan with two dependencies was fetched, and a plan without any is stored
C18_Witness ==
    /\ last.op = "PlanRepository.get_by_id"
    /\ last.detail.id # 0
    /\ Len(last.detail.dependencies) = 2
    /\ \E p \in PlanIdsStored : DependenciesOf(p) = {}

\* C19: create with a dependency id that names no plan, or with a thought id
\* that names no thought, fails with a ValueError and writes no row and no join
\* row; when the call has no other fault the error names the missing ids.
C19_MissingIdFails ==
    /\ [][\A d \in Texts, st \in StatusInputs, deps \in Lists(RepoIds, MaxList) :
             (PlanRepository_create(d, st, deps) /\ MissingPlans(deps) # {})
                 => /\ ~last'.ok
                    /\ last'.detail.error = "ValueError"
                    /\ UNCHANGED <<plans, plan_dependencies>>
                    /\ st \in PlanStatus \cup {NoStatus}
                          => /\ last'.detail.kind = "Dependency plan IDs do not exist"
                             /\ last'.detail.names = MissingPlans(deps)]_vars
    /\ [][\A p \in RepoIds, d \in Texts, tids \in Lists(RepoIds, MaxList) :
             (ChangelogRepository_create(p, d, tids) /\ MissingThoughts(tids) # {})
                 => /\ ~last'.ok
                    /\ last'.detail.error = "ValueError"
                    /\ UNCHANGED <<changes, changelog_thoughts>>
                    /\ PlanExists(p)
                          => /\ last'.detail.kind = "Thought IDs do not exist"
                             /\ last'.detail.names = MissingThoughts(tids)]_vars

\* a create was refused for a missing id while rows of that table were stored
C19_Witness ==
    /\ ~last.ok
    /\ \/ /\ last.op = "PlanRepository.create"
          /\ last.detail.kind = "Dependency plan IDs do not exist"
          /\ plans # {}
       \/ /\ last.op = "ChangelogRepository.create"
          /\ last.detail.kind = "Thought IDs do not exist"
          /\ changes # {}

\* C20: the status of every stored plan is one of todo, in-progress, blocked,
\* done; a plan created without a status has todo.
C20_PlanStatusEnum ==
    server = "main" => \A p \in plans : p.status \in PlanStatus

\* C21: a lookup by an id that names no record returns None and changes no
\* record; a lookup of a stored record returns the fields it was created with.
C21_AbsentIsNone ==
    [][/\ \A id \in ThoughtIds :
             get_thought(id)
                 => /\ UNCHANGED store
                    /\ IF ThoughtExists(id)
                       THEN /\ last'.detail.id = id
                            /\ \E t \in thoughts : /\ t.id = id
                                                   /\ t.content = last'.detail.content
                                                   /\ t.created_at = last'.detail.created_at
                       ELSE last'.detail = None
       /\ \A id \in PlanIds :
             get_plan(id)
                 => /\ UNCHANGED store
                    /\ IF PlanExists(id)
                       THEN /\ last'.detail.id = id
                            /\ \E p \in plans : /\ p.id = id
                                                /\ p.description = last'.detail.description
                       ELSE last'.detail = None
       /\ \A id \in ChangeIds :
             get_change(id)
                 => /\ UNCHANGED store
                    /\ IF ChangeExists(id)
                       THEN last'.detail \in changes /\ last'.detail.id = id
                       ELSE last'.detail = None]_vars

\* C22: two associate calls for the same pair of a stored thought and a stored
\* plan, neither of which found a row missing, both succeed and leave exactly
\* one association row for the pair.
C22_ConcurrentAssociateOnce ==
    (/\ tasks[1].pc = "done" /\ tasks[2].pc = "done"
     /\ tasks[1].thought_id = tasks[2].thought_id
     /\ tasks[1].plan_id = tasks[2].plan_id
     /\ tasks[1].code # 404 /\ tasks[2].code # 404)
        => /\ tasks[1].ok /\ tasks[2].ok
           /\ assoc[<<tasks[1].thought_id, tasks[1].plan_id>>] = 1

C24_MissingPlanIs404 ==
    [][\A cred \in Creds, d \in Texts, p \in PlanIds :
          (/\ Request("POST", "/api/changes", cred, "POST /api/changes",
                      api_create_change(cred, d, p))
           /\ AuthGate("POST", "/api/changes", cred) = 200
           /\ ~PlanExists(p))
              => last'.code = 404]_vars

\* building a Change from the item raises
ItemRaises(item) == ItemPlanExists(item) /\ ~item.has_description

\* one result entry per item, in input order; a Change for each item whose
\* plan exists and none for the others
PerItemResults(items) ==
    /\ Len(last'.detail.results) = Len(items)
    /\ changes \subseteq changes'
    /\ Cardinality(changes' \ changes) = KeptBefore(items, Len(items))
    /\ \A i \in 1..Len(items) :
          IF ItemPlanExists(items[i])
          THEN /\ last'.detail.results[i].kind = "Logged change"
               /\ \E c \in changes' \ changes :
                     /\ c.id = last'.detail.results[i].id
                     /\ c.plan_id = items[i].plan_id
          ELSE last'.detail.results[i].kind = "Error: Plan not found"

C26_BulkAllOrNothing ==
    [][/\ \A items \in Seqs(ThoughtItems, MaxBatch) :
             add_thoughts_bulk(items)
                 => /\ (\E i \in 1..Len(items) : ~items[i].has_content) => ~last'.ok
                    /\ IF last'.ok
                       THEN /\ thoughts \subseteq thoughts'
                            /\ Cardinality(thoughts' \ thoughts) = Len(items)
                            /\ Len(last'.detail.results) = Len(items)
                       ELSE /\ UNCHANGED store
                            /\ Len(last'.detail.results) = 1
       /\ \A items \in Seqs(PlanItems, MaxBatch) :
             create_plans_bulk(items)
                 => /\ (\E i \in 1..Len(items) : ~items[i].has_title) => ~last'.ok
                    /\ IF last'.ok
                       THEN /\ plans \subseteq plans'
                            /\ Cardinality(plans' \ plans) = Len(items)
                            /\ Len(last'.detail.results) = Len(items)
                       ELSE /\ UNCHANGED store
                            /\ Len(last'.detail.results) = 1]_vars

\* a batch of two items was refused while rows of earlier batches are stored
C26_Witness ==
    /\ last.op \in {"add_thoughts_bulk", "create_plans_bulk"}
    /\ ~last.ok
    /\ last.detail.sent = 2
    /\ thoughts # {} /\ plans # {}

C28_BulkAssociateIdempotent ==
    [][last'.op = "POST /api/thoughts/bulk-associate"
          => \A cred \in Creds, source_ids \in Seqs(ThoughtIds, MaxList),
                target_ids \in Seqs(PlanIds, MaxList) :
                (server = "main" /\ bulk_associate_thoughts(cred, source_ids, target_ids))
                    => LET asked == Range(Pairs(source_ids, target_ids))
                           fresh == {pr \in asked : assoc[pr] = 0}
                       IN /\ last'.ok
                          /\ last'.detail.created = Cardinality(fresh)
                          /\ \A pr \in ThoughtIds \X PlanIds :
                                assoc'[pr] = IF pr \in fresh THEN 1 ELSE assoc[pr]]_vars

\* every stored thought, plan and change as an item of the activity feed
StoredActivity ==
    {ActivityItem("thought", t) : t \in thoughts}
        \cup {ActivityItem("plan", p) : p \in plans}
        \cup {ActivityItem("change", c) : c \in changes}

\* C29: GET /api/recent-activity returns the 10 most recent records over
\* thoughts, plans and changes taken together, all records when fewer than 10
\* are stored, newest first.
C29_TenMostRecent ==
    [][last'.op = "GET /api/recent-activity" /\ ActivityNext
          => LET data == last'.detail.data
             IN /\ Len(data) = Min(10, Cardinality(StoredActivity))
                /\ ~HasDup(data)
                /\ Range(data) \subseteq StoredActivity
                /\ \A i, j \in 1..Len(data) : i < j => data[i].timestamp >= data[j].timestamp
                /\ \A x \in StoredActivity \ Range(data), y \in Range(data) :
                      x.timestamp <= y.timestamp]_vars

\* C30: a client that polls GET /api/updates with the newest created_at it has
\* received as `since' is shown every thought, plan and change exactly once:
\* no record comes in two polls, and after a poll every stored record has
\* been shown.
C30_PollShowsEachOnce ==
    /\ poll.again = {}
    /\ (last.op = "GET /api/updates" /\ last.ok) => StoredActivity \subseteq poll.seen

\* ================================================================ specifications

MainNext ==
    \/ RestNext
    \/ McpNext

\* a run of either server, of the authentication functions or of a repository,
\* every handler running to completion; the interleavings of handler
\* coroutines are the runs SpecAssociateTasks and SpecChangeTasks, the bulk
\* creation tools of main.py are the run SpecBulk, its activity feed the run
\* SpecActivity and its polling client the run SpecUpdates
Next ==
    \/ Tick
    \/ TpcNext
    \/ MainNext
    \/ AuthNext
    \/ ThoughtRepositoryNext
    \/ PlanRepositoryNext
    \/ ChangelogRepositoryNext

Spec == Init /\ [][Next]_vars

\* a run of tpc_server.py
InitTpc == Init /\ server = "tpc_server"

NextTpc ==
    \/ Tick
    \/ TpcNext

SpecTpc == InitTpc /\ [][NextTpc]_vars

\* a run of main.py
InitMain == Init /\ server = "main"

NextMain ==
    \/ Tick
    \/ MainNext

SpecMain == InitMain /\ [][NextMain]_vars

\* a run of the authentication functions of auth.py
InitAuth == Init /\ server = "auth"

NextAuth == AuthNext

SpecAuth == InitAuth /\ [][NextAuth]_vars

\* a run of the ThoughtRepository
InitThoughtRepository == Init /\ server = "thought_repository"

NextThoughtRepository ==
    \/ Tick
    \/ ThoughtRepositoryNext

SpecThoughtRepository == InitThoughtRepository /\ [][NextThoughtRepository]_vars

\* a run of the PlanRepository
InitPlanRepository == Init /\ server = "plan_repository"

NextPlanRepository ==
    \/ Tick
    \/ PlanRepositoryNext

SpecPlanRepository == InitPlanRepository /\ [][NextPlanRepository]_vars

\* a run of the PlanRepository or of the ChangelogRepository
InitRepositories == Init /\ server \in {"plan_repository", "changelog_repository"}

NextRepositories ==
    \/ Tick
    \/ PlanRepositoryNext
    \/ ChangelogRepositoryNext

SpecRepositories == InitRepositories /\ [][NextRepositories]_vars

\* tpc_server.py with associate calls running concurrently
InitAssociateTasks == Init /\ server = "tpc_server"

NextAssociateTasks ==
    \/ \E c \in Texts, ids \in Lists(PlanIds, MaxList) : tpc_create_thought(c, ids)
    \/ \E d \in Texts, ids \in Lists(ThoughtIds, MaxList) : tpc_create_plan(d, ids)
    \/ AssociateTasksNext

SpecAssociateTasks == InitAssociateTasks /\ [][NextAssociateTasks]_vars

\* main.py with POST /api/changes running concurrently with plan creation
\* and POST /api/plans/bulk-delete
InitChangeTasks == Init /\ server = "main"

NextChangeTasks ==
    \/ Tick
    \/ \E cred \in Creds, d \in Texts :
         Request("POST", "/api/plans", cred, "POST /api/plans",
                 api_create_plan(cred, d, <<>>))
    \/ \E cred \in Creds, ids \in Seqs(PlanIds, MaxList) :
         Request("POST", "/api/plans/bulk-delete", cred, "POST /api/plans/bulk-delete",
                 bulk_delete_plans(cred, ids))
    \/ ChangeTasksNext

SpecChangeTasks == InitChangeTasks /\ [][NextChangeTasks]_vars

\* main.py's bulk creation tools
InitBulk == Init /\ server = "main"

NextBulk ==
    \/ Tick
    \/ BulkNext

SpecBulk == InitBulk /\ [][NextBulk]_vars

\* the activity feed run on every database of up to MaxRecent thoughts,
\* MaxRecent plans and MaxChanges changes: ids in insertion order, created_at
\* growing from one insertion into a table to the next
StampSets(n) == {S \in SUBSET (0..(MaxRecent - 1)) : Cardinality(S) <= n}

Rank(S, x) == Cardinality({y \in S : y <= x})

InitActivity ==
    /\ server = "main"
    /\ thoughts \in {{[id |-> Rank(S, x), content |-> "a", created_at |-> x] : x \in S} :
                        S \in StampSets(MaxRecent)}
    /\ plans \in {{[id |-> Rank(S, x), description |-> "a", created_at |-> x,
                    status |-> "active"] : x \in S} : S \in StampSets(MaxRecent)}
    /\ changes \in {{[id |-> Rank(S, x), description |-> "a", plan_id |-> 1,
                      created_at |-> x] : x \in S} :
                       S \in {T \in StampSets(MaxChanges) : T = {} \/ plans # {}}}
    /\ assoc = NoAssoc
    /\ nextThought = Cardinality(thoughts) + 1
    /\ nextPlan = Cardinality(plans) + 1
    /\ nextChange = Cardinality(changes) + 1
    /\ clock = MaxRecent - 1
    /\ last = Response("init", TRUE, 0, "")
    /\ users = {}
    /\ api_keys = {}
    /\ log = <<>>
    /\ req = NoRequest
    /\ walk = NoWalk
    /\ plan_dependencies = {}
    /\ changelog_thoughts = {}
    /\ tasks = NoTasks
    /\ poll = NoPoll

NextActivity == ActivityNext

SpecActivity == InitActivity /\ [][NextActivity]_vars

\* main.py creating records while a client polls GET /api/updates
InitUpdates == Init /\ server = "main"

NextUpdates ==
    \/ Tick
    \/ \E cred \in Creds, c \in Texts :
         Request("POST", "/api/thoughts", cred, "POST /api/thoughts",
                 api_create_thought(cred, c, <<>>))
    \/ \E cred \in Creds, d \in Texts :
         Request("POST", "/api/plans", cred, "POST /api/plans",
                 api_create_plan(cred, d, <<>>))
    \/ \E cred \in Creds, d \in Texts, p \in PlanIds :
         Request("POST", "/api/changes", cred, "POST /api/changes",
                 api_create_change(cred, d, p))
    \/ UpdatesNext

SpecUpdates == InitUpdates /\ [][NextUpdates]_vars

\* the listing queries run on every thoughts table of up to MaxListed rows:
\* ids in insertion order, created_at never decreasing from one insertion to
\* the next
StampSeqs ==
    {f \in Seqs(0..(MaxListed - 1), MaxListed) :
        \A i, j \in 1..Len(f) : i < j => f[i] <= f[j]}

DrawnThoughts ==
    {{[id |-> i, content |-> "a", created_at |-> f[i]] : i \in 1..Len(f)} :
        f \in StampSeqs}

InitListing ==
    /\ server \in {"tpc_server", "main"}
    /\ thoughts \in DrawnThoughts
    /\ plans = {}
    /\ changes = {}
    /\ assoc = NoAssoc
    /\ nextThought = Cardinality(thoughts) + 1
    /\ nextPlan = 1
    /\ nextChange = 1
    /\ clock = MaxListed - 1
    /\ last = Response("init", TRUE, 0, "")
    /\ users = {}
    /\ api_keys = {}
    /\ log = <<>>
    /\ req = NoRequest
    /\ walk = NoWalk
    /\ plan_dependencies = {}
    /\ changelog_thoughts = {}
    /\ tasks = NoTasks
    /\ poll = NoPoll

NextListing ==
    \/ list_thoughts
    \/ \E cred \in Creds : RestRead(cred)

SpecListing == InitListing /\ [][NextListing]_vars
====
